---- MODULE Spec2Model ----
(***************************************************************************)
(* Signaling relay of server.js: the connection map, the per-socket        *)
(* notifyOnClose lists, and the 'connection', 'message' and 'close'        *)
(* handlers, together with the sends they make.                            *)
(***************************************************************************)
EXTENDS Integers, Sequences, FiniteSets, TLC

\* ---------------------------------------------------------------- bounds
NumSockets == 3      \* transport connections accepted during a run of Spec
TransSockets == 2    \* connections accepted during a run of SpecTransport
MaxTransMsgs == 1    \* inbound messages handled during a run of SpecTransport
MaxMsgs == 1         \* inbound messages handled during a run of Spec
CallSockets == 2     \* connections accepted during a run of SpecCall
MaxCallMsgs == 3     \* inbound messages handled during a run of SpecCall
IceSockets == 2      \* connections accepted during a run of SpecTwilio
MaxIceMsgs == 1      \* inbound messages handled during a run of SpecTwilio
PassSockets == 2     \* connections accepted during a run of SpecPass
MaxPassMsgs == 1     \* inbound messages handled during a run of SpecPass

Sockets == 1..NumSockets
\* as many distinct uuid values as sockets that can draw one
Ids == 1..NumSockets
NoId == 0            \* an envelope without an id field
StrangerId == NoId - 1   \* an id string that generateClientId never returns

\* ------------------------------------------------------ JSON texts, values
\* A message text is a record; kind tells what the text is:
\*   "garbage" : not JSON, "null" : the text null, "number" : the text 5,
\*   "object"  : an object with optional type, id and one payload field.
NoType == "<none>"
NoPayload == "<none>"
Types == {"offer", "answer", "bye"}
\* payload field texts: a string literal and a number beyond double range
PayloadTexts == {"\"x\"", "1e999"}

Text(kind, type, id, payload) ==
    [kind |-> kind, type |-> type, id |-> id, payload |-> payload]

Targets == Ids \cup {StrangerId}
Envelopes == {Text("object", t, i, "\"x\"") : t \in Types, i \in Targets}
                \cup {Text("object", "offer", i, "1e999") : i \in Targets}
Malformed == {Text("garbage", NoType, NoId, NoPayload),
              Text("null", NoType, NoId, NoPayload),
              Text("number", NoType, NoId, NoPayload),
              Text("object", "offer", NoId, "\"x\"")}
Messages == Envelopes \cup Malformed

\* JSON.parse of a number literal: one beyond double range becomes Infinity
ParseValue(txt) == IF txt = "1e999" THEN "Infinity" ELSE txt

\* JSON.stringify of a value: a non-finite number is written as null
StringifyValue(v) == IF v = "Infinity" THEN "null" ELSE v

\* JSON.parse(message): SyntaxError for text that is no JSON
JSONparse(m) ==
    IF m.kind = "garbage"
    THEN [threw |-> TRUE, js |-> "undefined", type |-> NoType, id |-> NoId, payload |-> NoPayload]
    ELSE [threw |-> FALSE, js |-> m.kind, type |-> m.type, id |-> m.id,
          payload |-> ParseValue(m.payload)]

\* JSON.stringify(data) of an object value
JSONstringify(data) ==
    Text("object", data.type, data.id, StringifyValue(data.payload))

\* the greeting and the ICE configuration, as the texts ws.send is handed
HelloText(id) == Text("object", "hello", id, NoPayload)
IceText(list) == Text("object", "iceServers", NoId, list)
ByeData(id) == [threw |-> FALSE, js |-> "object", type |-> "bye", id |-> id, payload |-> NoPayload]

\* ------------------------------------------------------------------ state
VARIABLES
    alive,          \* the node process is running
    twilio,         \* the twilio client was configured at startup
    connections,    \* the Map id -> socket
    sockState,      \* per socket: "idle", "open", "rejected", "closed"
    readyState,     \* per socket: ws.readyState
    sockId,         \* per socket: the id its 'connection' handler drew
    notifyOnClose,  \* per socket: the array of ids to notify
    icePending,     \* per socket: twilio.tokens.create() is not settled
    inbox,          \* per socket: the ws.send calls made on it, in order
    last,           \* the last handler run and what it logged
    handled,        \* number of 'message' events handled
    unhandled,      \* a promise rejection nobody handles has happened
    lastCall        \* per pair of sockets: type of the last answer/bye routed

vars == <<alive, twilio, connections, sockState, readyState, sockId,
          notifyOnClose, icePending, inbox, last, handled, unhandled, lastCall>>

Pairs == {{a, b} : a, b \in Sockets}

\* a handler run: the socket it ran for and the line it logged
Event(ev, sock, log) == [ev |-> ev, sock |-> sock, log |-> log]

Start(tw) ==
    /\ alive = TRUE
    /\ twilio = tw
    /\ connections = <<>>
    /\ sockState = [s \in Sockets |-> "idle"]
    /\ readyState = [s \in Sockets |-> "CONNECTING"]
    /\ sockId = [s \in Sockets |-> NoId]
    /\ notifyOnClose = [s \in Sockets |-> <<>>]
    /\ icePending = [s \in Sockets |-> FALSE]
    /\ inbox = [s \in Sockets |-> <<>>]
    /\ last = Event("start", NoId, "listening")
    /\ handled = 0
    /\ unhandled = FALSE
    /\ lastCall = [p \in Pairs |-> "none"]

\* TWILIO_ACCOUNT_SID and TWILIO_AUTH_TOKEN are not both set
Init == Start(FALSE)

\* both are set
InitTwilio == Start(TRUE)

\* either configuration
InitAny == Init \/ InitTwilio

\* ---------------------------------------------------------------- helpers
\* ids some socket has drawn so far
Issued == {sockId[t] : t \in {u \in Sockets : sockState[u] # "idle"}}

\* uuid.v4(): any value; values are opaque, so a value drawn for the first
\* time is named by the least number not drawn before
generateClientId ==
    Issued \cup {i \in Ids : i \notin Issued /\ \A j \in Ids : j < i => j \in Issued}

\* connections.has(id)
Has(conns, id) == id \in DOMAIN conns

\* connections.get(id): undefined for an absent key
Undefined == 0
Get(conns, id) == IF id \in DOMAIN conns THEN conns[id] ELSE Undefined

\* if (connections.has(id)) of the 'connection' handler
DuplicateIdMut(conns, id) == FALSE
DuplicateId(conns, id) == Has(conns, id)

\* if (!connections.has(data.id)) of the 'message' handler
PeerNotFoundMut(conns, data) == FALSE
PeerNotFound(conns, data) == ~Has(conns, data.id)

\* connections.set(id, ws)
MapSet(conns, id, s) == [k \in DOMAIN conns \cup {id} |-> IF k = id THEN s ELSE conns[k]]

\* connections.delete(id)
MapDeleteMut(conns, id) == conns
MapDelete(conns, id) == [k \in DOMAIN conns \ {id} |-> conns[k]]

\* list.indexOf(x): 1-based here, 0 when absent
IndexOf(list, x) ==
    IF \E i \in 1..Len(list) : list[i] = x
    THEN CHOOSE i \in 1..Len(list) : list[i] = x /\ \A j \in 1..(i - 1) : list[j] # x
    ELSE 0

\* list.splice(i, 1)
Splice(list, i) == [j \in 1..(Len(list) - 1) |-> IF j < i THEN list[j] ELSE list[j + 1]]

\* ws.trackCallState(data, peerId) on the array notifyOnClose
trackCallStateMut(list, data, peerId) ==
    IF data.type = "bye"
    THEN (IF IndexOf(list, peerId) # 0 THEN Splice(list, IndexOf(list, peerId)) ELSE list)
    ELSE Append(list, peerId)
trackCallState(list, data, peerId) ==
    CASE data.type = "answer" -> Append(list, peerId)
      [] data.type = "bye" ->
            IF IndexOf(list, peerId) # 0 THEN Splice(list, IndexOf(list, peerId)) ELSE list
      [] OTHER -> list

\* ws.send(text, cb) on socket s: the call is logged; on a socket that is not
\* OPEN the callback gets an error and nothing goes out
wsSendMut(box, s, src, text) ==
    [box EXCEPT ![s] = <<[src |-> src, msg |-> text, err |-> readyState[s] # "OPEN"]>> \o @]
wsSend(box, s, src, text) ==
    [box EXCEPT ![s] = Append(@, [src |-> src, msg |-> text, err |-> readyState[s] # "OPEN"])]

\* ws.send of the greeting, on the socket just accepted
sendHelloMut(box, s, id) == box
sendHello(box, s, id) ==
    [box EXCEPT ![s] = Append(@, [src |-> "connect", msg |-> HelloText(id), err |-> FALSE])]

\* ws.send of the static ICE configuration, on the socket just accepted
sendStun(box, s) ==
    [box EXCEPT ![s] = Append(@, [src |-> "connect", msg |-> IceText("stun"), err |-> FALSE])]

\* peer.sendMessage(data): the peer tracks, then sends
sendMessageOpenOnly(st, p, data) ==
    [subs |-> IF readyState[p] = "OPEN"
              THEN [st.subs EXCEPT ![p] = trackCallState(@, data, data.id)]
              ELSE st.subs,
     box |-> wsSend(st.box, p, "relay", JSONstringify(data))]
sendMessageShared(st, p, data) ==
    [subs |-> [q \in Sockets |-> trackCallState(st.subs[q], data, data.id)],
     box |-> wsSend(st.box, p, "relay", JSONstringify(data))]
sendMessageMut(st, p, data) ==
    [subs |-> st.subs,
     box |-> wsSend(st.box, p, "relay", JSONstringify(data))]
sendMessage(st, p, data) ==
    [subs |-> [st.subs EXCEPT ![p] = trackCallState(@, data, data.id)],
     box |-> wsSend(st.box, p, "relay", JSONstringify(data))]

\* notifyOnClose.forEach(remoteId => ...) of the 'close' handler
NotifyAllNone(list, id, conns, st) == st
RECURSIVE NotifyAllMut(_, _, _, _)
NotifyAllMut(list, id, conns, st) ==
    IF list = <<>> THEN st
    ELSE LET remoteId == Head(list)
             peer == Get(conns, remoteId)
         IN IF peer = Undefined THEN st
            ELSE NotifyAllMut(Tail(list), id, conns, sendMessage(st, peer, ByeData(id)))
RECURSIVE NotifyAll(_, _, _, _)
NotifyAll(list, id, conns, st) ==
    IF list = <<>> THEN st
    ELSE LET remoteId == Head(list)
             peer == Get(conns, remoteId)
             next == IF peer = Undefined THEN st
                     ELSE sendMessage(st, peer, ByeData(id))
         IN NotifyAll(Tail(list), id, conns, next)

\* data.id = id of the 'message' handler: the target's id gives way to the
\* sender's
rewriteIdMut(data, id) == data
rewriteId(data, id) == [data EXCEPT !.id = id]

\* the pair's history after an envelope of this type was routed
CallAfter(hist, a, b, type) ==
    IF type \in {"answer", "bye"} THEN [hist EXCEPT ![{a, b}] = type] ELSE hist

\* ---------------------------------------------------------------- actions
\* wss.on('connection'): sockets are numbered in the order they are accepted
OnConnection(s) ==
    /\ alive
    /\ sockState[s] = "idle"
    /\ \A t \in Sockets : t < s => sockState[t] # "idle"
    /\ \E id \in generateClientId :
        IF DuplicateId(connections, id)
        THEN \* duplicate id: ws.close(), no handler is attached
             /\ sockState' = [sockState EXCEPT ![s] = "rejected"]
             /\ readyState' = [readyState EXCEPT ![s] = "CLOSING"]
             /\ sockId' = [sockId EXCEPT ![s] = id]
             /\ last' = Event("connection", s, "duplicate id")
             /\ UNCHANGED <<connections, icePending, inbox>>
        ELSE /\ connections' = MapSet(connections, id, s)
             /\ sockState' = [sockState EXCEPT ![s] = "open"]
             /\ readyState' = [readyState EXCEPT ![s] = "OPEN"]
             /\ sockId' = [sockId EXCEPT ![s] = id]
             /\ last' = Event("connection", s, "registered")
             /\ IF twilio
                THEN /\ icePending' = [icePending EXCEPT ![s] = TRUE]
                     /\ inbox' = sendHello(inbox, s, id)
                ELSE /\ icePending' = icePending
                     /\ inbox' = sendStun(sendHello(inbox, s, id), s)
    /\ UNCHANGED <<alive, twilio, notifyOnClose, handled, unhandled, lastCall>>

\* ws.send(text) with no callback on a socket in readyState rs: the ws library
\* (sendAfterClose) counts the data of a CLOSING or CLOSED socket as buffered
\* and returns; it does not throw
sendThrowsMut(rs) == rs # "OPEN"
sendThrows(rs) == FALSE

\* twilio.tokens.create() resolved: the .then callback sends the list with no
\* send callback; nothing goes out on a socket that is no longer OPEN, and a
\* throw inside the callback would be a rejection nobody handles
IceResolved(s) ==
    /\ alive
    /\ icePending[s]
    /\ icePending' = [icePending EXCEPT ![s] = FALSE]
    /\ IF readyState[s] = "OPEN"
       THEN /\ inbox' = wsSend(inbox, s, "connect", IceText("token"))
            /\ UNCHANGED <<alive, unhandled>>
       ELSE /\ inbox' = inbox
            /\ unhandled' = (unhandled \/ sendThrows(readyState[s]))
            /\ \E exits \in BOOLEAN : alive' = ~(sendThrows(readyState[s]) /\ exits)
    /\ last' = Event("iceResolved", s, "")
    /\ UNCHANGED <<twilio, connections, sockState, readyState, sockId,
                   notifyOnClose, handled, lastCall>>

\* twilio.tokens.create() rejected: the promise has no rejection handler; node
\* either warns or ends the process, depending on its version
IceRejected(s) ==
    /\ alive
    /\ icePending[s]
    /\ icePending' = [icePending EXCEPT ![s] = FALSE]
    /\ unhandled' = TRUE
    /\ \E exits \in BOOLEAN : alive' = ~exits
    /\ last' = Event("iceRejected", s, "")
    /\ UNCHANGED <<twilio, connections, sockState, readyState, sockId,
                   notifyOnClose, inbox, handled, lastCall>>

\* the transport of an open socket goes away; its 'close' event comes later
TransportDown(s) ==
    /\ alive
    /\ sockState[s] = "open"
    /\ readyState[s] = "OPEN"
    /\ readyState' = [readyState EXCEPT ![s] = "CLOSING"]
    /\ last' = Event("transportDown", s, "")
    /\ UNCHANGED <<alive, twilio, connections, sockState, sockId, notifyOnClose,
                   icePending, inbox, handled, unhandled, lastCall>>

\* ws.on('close')
OnClose(s) ==
    /\ alive
    /\ sockState[s] = "open"
    /\ LET id == sockId[s]
           conns == MapDelete(connections, id)
           st == NotifyAll(notifyOnClose[s], id, conns,
                           [subs |-> notifyOnClose, box |-> inbox])
       IN /\ connections' = conns
          /\ notifyOnClose' = st.subs
          /\ inbox' = st.box
    /\ sockState' = [sockState EXCEPT ![s] = "closed"]
    /\ readyState' = [readyState EXCEPT ![s] = "CLOSED"]
    /\ lastCall' = [p \in Pairs |-> IF s \in p THEN "none" ELSE lastCall[p]]
    /\ last' = Event("close", s, "Connection closed")
    /\ UNCHANGED <<alive, twilio, sockId, icePending, handled, unhandled>>

\* ws.on('message') for the message text m
OnMessage(s, m) ==
    /\ alive
    /\ sockState[s] = "open"
    /\ readyState[s] = "OPEN"
    /\ handled' = handled + 1
    /\ LET data == JSONparse(m)
           id == sockId[s]
       IN IF data.threw
          THEN /\ last' = Event("message", s, "invalid json")
               /\ UNCHANGED <<alive, connections, notifyOnClose, inbox, lastCall>>
          ELSE IF data.js = "null"
          THEN \* data.id on null throws a TypeError nobody catches
               /\ alive' = FALSE
               /\ last' = Event("message", s, "uncaught TypeError")
               /\ UNCHANGED <<connections, notifyOnClose, inbox, lastCall>>
          ELSE IF data.js # "object" \/ data.id = NoId
          THEN /\ last' = Event("message", s, "missing id")
               /\ UNCHANGED <<alive, connections, notifyOnClose, inbox, lastCall>>
          ELSE IF PeerNotFound(connections, data)
          THEN /\ last' = Event("message", s, "peer not found")
               /\ UNCHANGED <<alive, connections, notifyOnClose, inbox, lastCall>>
          ELSE IF Get(connections, data.id) = Undefined
          THEN \* peer.sendMessage on undefined throws a TypeError nobody catches
               /\ alive' = FALSE
               /\ last' = Event("message", s, "uncaught TypeError")
               /\ UNCHANGED <<connections, notifyOnClose, inbox, lastCall>>
          ELSE LET peerId == data.id
                   peer == connections[peerId]
                   out == rewriteId(data, id)
                   st == sendMessage([subs |-> notifyOnClose, box |-> inbox], peer, out)
               IN /\ inbox' = st.box
                  /\ notifyOnClose' = [st.subs EXCEPT ![s] = trackCallState(@, out, peerId)]
                  /\ lastCall' = CallAfter(lastCall, s, peer, out.type)
                  /\ last' = Event("message", s, "forwarded")
                  /\ UNCHANGED <<alive, connections>>
    /\ UNCHANGED <<twilio, sockState, readyState, sockId, icePending, unhandled>>

\* static STUN configuration, every kind of message text
Next ==
    \/ \E s \in Sockets : OnConnection(s)
    \/ \E s \in Sockets : OnClose(s)
    \/ \E s \in Sockets, m \in Messages : handled < MaxMsgs /\ OnMessage(s, m)

Spec == Init /\ [][Next]_vars

\* static STUN configuration, call signalling only
CallMessages == {Text("object", t, i, "\"x\"") : t \in {"answer", "bye"}, i \in 1..CallSockets}

NextCall ==
    \/ \E s \in 1..CallSockets : OnConnection(s)
    \/ \E s \in Sockets : OnClose(s)
    \/ \E s \in Sockets, m \in CallMessages : handled < MaxCallMsgs /\ OnMessage(s, m)

SpecCall == Init /\ [][NextCall]_vars

\* either configuration: with twilio the ICE list comes from a promise
IceMessages == {Text("object", t, i, "\"x\"") : t \in {"hello", "iceServers"}, i \in 1..IceSockets}

NextTwilio ==
    \/ \E s \in 1..IceSockets : OnConnection(s)
    \/ \E s \in Sockets : IceResolved(s)
    \/ \E s \in Sockets : IceRejected(s)
    \/ \E s \in Sockets : OnClose(s)
    \/ \E s \in Sockets, m \in IceMessages : handled < MaxIceMsgs /\ OnMessage(s, m)

SpecTwilio == InitAny /\ [][NextTwilio]_vars

\* static STUN configuration, envelopes of the types trackCallState has no
\* case for (one of them without a type field), and answers
PassTypes == {"offer", "candidate", "hello", "iceServers", "ping", NoType}
PassMessages == {Text("object", t, i, "\"x\"") : t \in PassTypes \cup {"answer"}, i \in 1..PassSockets}

NextPass ==
    \/ \E s \in 1..PassSockets : OnConnection(s)
    \/ \E s \in Sockets : OnClose(s)
    \/ \E s \in Sockets, m \in PassMessages : handled < MaxPassMsgs /\ OnMessage(s, m)

SpecPass == Init /\ [][NextPass]_vars

\* ----------------------------------------------------------------- claims
\* static STUN configuration, transports that go away before their 'close'
\* event, and offers, answers and byes
TransMessages == {Text("object", t, i, "\"x\"") : t \in Types, i \in 1..TransSockets}

NextTransport ==
    \/ \E s \in 1..TransSockets : OnConnection(s)
    \/ \E s \in Sockets : TransportDown(s)
    \/ \E s \in Sockets : OnClose(s)
    \/ \E s \in Sockets, m \in TransMessages : handled < MaxTransMsgs /\ OnMessage(s, m)

SpecTransport == Init /\ [][NextTransport]_vars

Range(list) == {list[i] : i \in 1..Len(list)}
Count(list, x) == Cardinality({i \in 1..Len(list) : list[i] = x})
IsOpen(s) == sockState[s] = "open"

\* the ws.send calls made on socket b during the step
NewEntries(b) == SubSeq(inbox'[b], Len(inbox[b]) + 1, Len(inbox'[b]))

\* the step handled a 'message' event of socket s
MessageStep(s) == handled' = handled + 1 /\ last'.sock = s

\* every variable of the relay but the log line and the message counter
relayVars == <<alive, twilio, connections, sockState, readyState, sockId,
               notifyOnClose, icePending, inbox, unhandled, lastCall>>

\* C1: when registered A sends a well-formed envelope whose id is another
\* registered connection B's identity, exactly one envelope is sent, to B only, equal to the one A
\* sent except that its id is A's identity; type and payload are unchanged.
RoutingCorrectness ==
    [][\A a \in Sockets, m \in Envelopes :
          (OnMessage(a, m) /\ Has(connections, m.id) /\ connections[m.id] # a) =>
              inbox' = [inbox EXCEPT ![connections[m.id]] =
                          Append(@, [src |-> "relay",
                                     msg |-> [m EXCEPT !.id = sockId[a]],
                                     err |-> FALSE])]]_vars

\* C2: when A closes while B is registered and the last answer/bye routed
\* between them was an answer, the close sends B exactly one envelope, the
\* notice {type: bye, id: A}.
ExactlyOneBye ==
    [][\A a, b \in Sockets :
          (OnClose(a) /\ a # b /\ IsOpen(b) /\ lastCall[{a, b}] = "answer") =>
              NewEntries(b) = <<[src |-> "relay",
                                 msg |-> JSONstringify(ByeData(sockId[a])),
                                 err |-> FALSE]>>]_vars

\* C3: when the last answer/bye routed between registered A and B was a bye,
\* neither one holds the other's identity in its notifyOnClose.
UnsubscribedAfterBye ==
    \A a, b \in Sockets :
        (a # b /\ IsOpen(a) /\ IsOpen(b) /\ lastCall[{a, b}] = "bye") =>
            /\ sockId[b] \notin Range(notifyOnClose[a])
            /\ sockId[a] \notin Range(notifyOnClose[b])

\* C4: the notifyOnClose of a registered connection holds the identity of any
\* other connection at most once.
IdempotentMembership ==
    \A s \in Sockets : IsOpen(s) =>
        \A i \in Ids \ {sockId[s]} : Count(notifyOnClose[s], i) <= 1

\* C5: a message that is no well-formed envelope with an id is dropped: nothing
\* is sent, the registry and the notifyOnClose lists stay as they are, and the
\* process keeps running.
MalformedDropped ==
    [][\A s \in Sockets, m \in Malformed :
          OnMessage(s, m) =>
              (alive' /\ UNCHANGED <<connections, notifyOnClose, inbox>>)]_vars

\* C6: when the token fetch of a registered connection fails, the connection
\* stays registered, is sent an iceServers envelope, and no rejection is left
\* unhandled.
ProviderFailureAbsorbed ==
    [][\A s \in Sockets :
          (IceRejected(s) /\ IsOpen(s)) =>
              /\ alive' /\ unhandled' = unhandled
              /\ connections' = connections
              /\ Len(NewEntries(s)) = 1
              /\ NewEntries(s)[1].msg.type = "iceServers"]_vars

\* C7: an envelope whose id is not in the registry when it is handled changes
\* nothing but the log: no send to anyone, the registry and every
\* notifyOnClose (for answer and bye too) as before, and no pending state from
\* which it could be delivered later.
UnknownTargetSilence ==
    [][\A s \in Sockets : MessageStep(s) =>
          \A m \in Envelopes :
              (~Has(connections, m.id) /\ OnMessage(s, m)) => UNCHANGED relayVars]_vars

\* a registered connection's envelope was dropped as 'peer not found' after
\* another connection had closed, and nobody was sent anything but greetings
UnknownTargetWitness ==
    \E s, t \in Sockets :
        /\ last = Event("message", s, "peer not found")
        /\ IsOpen(s) /\ sockState[t] = "closed"
        /\ \A u \in Sockets : \A i \in 1..Len(inbox[u]) : inbox[u][i].src = "connect"

\* C8: no two registered connections hold the same identity, and a connection
\* keeps the identity it drew for as long as it is registered.
UniqueIdentity ==
    /\ [](\A s, t \in Sockets : (IsOpen(s) /\ IsOpen(t) /\ s # t) => sockId[s] # sockId[t])
    /\ [][\A s \in Sockets : IsOpen(s) => sockId'[s] = sockId[s]]_vars

\* two registered connections, one of them on the identity of a closed one
UniqueIdentityWitness ==
    \E s, t, u \in Sockets :
        /\ IsOpen(s) /\ IsOpen(t) /\ s # t
        /\ sockState[u] = "closed" /\ sockId[u] = sockId[s]

\* C9: the registry maps an identity to a socket exactly when that socket
\* registered under it and its close has not been handled.
RegistryCorrect ==
    \A s \in Sockets, i \in Ids :
        (Get(connections, i) = s) <=> (IsOpen(s) /\ sockId[s] = i)

\* a closed connection's identity is absent while another is still mapped
RegistryCorrectWitness ==
    \E s, t \in Sockets :
        /\ sockState[s] = "closed" /\ ~Has(connections, sockId[s])
        /\ IsOpen(t) /\ Get(connections, sockId[t]) = t

\* C10: the first envelope sent to a registered connection is the hello of its
\* own identity; 'connection' sends it no second hello and at most one
\* iceServers envelope, which comes after the hello.
FromConnect(box, type) == {i \in 1..Len(box) : box[i].src = "connect" /\ box[i].msg.type = type}
GreetingOrder ==
    \A s \in Sockets : sockState[s] \in {"open", "closed"} =>
        /\ Len(inbox[s]) >= 1
        /\ inbox[s][1] = [src |-> "connect", msg |-> HelloText(sockId[s]), err |-> FALSE]
        /\ FromConnect(inbox[s], "hello") = {1}
        /\ Cardinality(FromConnect(inbox[s], "iceServers")) <= 1

\* a relayed envelope reached a connection between its hello and its
\* iceServers envelope
GreetingOrderWitness ==
    \E s \in Sockets :
        /\ Len(inbox[s]) = 3
        /\ inbox[s][1].msg.type = "hello" /\ inbox[s][1].src = "connect"
        /\ inbox[s][2].src = "relay"
        /\ inbox[s][3].msg.type = "iceServers" /\ inbox[s][3].src = "connect"

\* C11: routing an envelope whose type is neither answer nor bye (offer,
\* candidate, hello, iceServers, an unknown string, or no type field) leaves
\* every notifyOnClose as it was.
PassthroughNoTracking ==
    [][\A s \in Sockets : MessageStep(s) =>
          \A m \in PassMessages :
              (m.type \in PassTypes /\ OnMessage(s, m)) =>
                  notifyOnClose' = notifyOnClose]_vars

\* an envelope without a type field was forwarded from one registered
\* connection to another
PassthroughWitness ==
    \E a, b \in Sockets :
        /\ a # b /\ IsOpen(a) /\ IsOpen(b)
        /\ last = Event("message", a, "forwarded")
        /\ Len(inbox[b]) = 3
        /\ inbox[b][3] = [src |-> "relay", msg |-> Text("object", NoType, sockId[a], "\"x\""),
                          err |-> FALSE]
        /\ \A s \in Sockets : notifyOnClose[s] = <<>>

\* the step ran the 'connection' handler for socket s
ConnectStep(s) == sockState[s] = "idle" /\ sockState'[s] # "idle"

\* C12: when the identity drawn for a new connection is already in the
\* registry, the connection is closed and not registered: the registry (so the
\* entry of the original connection), every notifyOnClose and every socket's
\* sends stay as they were, and a rejected connection is never sent anything.
DuplicateRejected ==
    /\ [](\A s \in Sockets : sockState[s] = "rejected" =>
              /\ inbox[s] = <<>> /\ notifyOnClose[s] = <<>>
              /\ readyState[s] = "CLOSING" /\ ~icePending[s])
    /\ [][\A s \in Sockets :
            (ConnectStep(s) /\ Has(connections, sockId'[s])) =>
                /\ sockState'[s] = "rejected"
                /\ UNCHANGED <<connections, notifyOnClose, inbox>>]_vars

\* a connection was rejected for drawing the identity of a registered one,
\* which is still mapped
DuplicateRejectedWitness ==
    \E s, t \in Sockets :
        /\ sockState[s] = "rejected" /\ IsOpen(t)
        /\ last = Event("connection", s, "duplicate id")
        /\ sockId[s] = sockId[t] /\ Get(connections, sockId[t]) = t
        /\ inbox[s] = <<>>

\* the sends made on socket b before the step are the first sends after it
Extends(b) ==
    /\ Len(inbox'[b]) >= Len(inbox[b])
    /\ SubSeq(inbox'[b], 1, Len(inbox[b])) = inbox[b]

\* C13: a message of A for registered B is forwarded in the step that handles
\* it, once, as the last send on B so far, and a message for nobody is never
\* forwarded; no step reorders, drops or repeats an earlier send. So the
\* envelopes B is sent from A are in the order A's messages were handled.
OrderedAtMostOnce ==
    [][/\ \A b \in Sockets : Extends(b)
       /\ \A a \in Sockets : MessageStep(a) =>
             \A m \in CallMessages : OnMessage(a, m) =>
                 IF Has(connections, m.id)
                 THEN inbox' = [inbox EXCEPT ![connections[m.id]] =
                                  Append(@, [src |-> "relay",
                                             msg |-> [m EXCEPT !.id = sockId[a]],
                                             err |-> FALSE])]
                 ELSE inbox' = inbox]_vars

\* B was sent A's answer and then A's bye, in the order A sent them
OrderedWitness ==
    \E a, b \in Sockets :
        /\ a # b /\ IsOpen(a) /\ IsOpen(b)
        /\ Len(inbox[b]) = 4
        /\ inbox[b][3] = [src |-> "relay", msg |-> Text("object", "answer", sockId[a], "\"x\""),
                          err |-> FALSE]
        /\ inbox[b][4] = [src |-> "relay", msg |-> Text("object", "bye", sockId[a], "\"x\""),
                          err |-> FALSE]

\* the count after one occurrence, if there is one, was removed
OneLess(n) == IF n > 0 THEN n - 1 ELSE 0

\* C14: a routed answer from X to Y adds Y to X's list and X to Y's list, and
\* a routed bye between two connections removes one occurrence of the other
\* party, if there is one, on both sides.
SymmetricTracking ==
    [][\A x \in Sockets : MessageStep(x) =>
          \A m \in CallMessages : (Has(connections, m.id) /\ OnMessage(x, m)) =>
              LET y == connections[m.id]
                  X == sockId[x]
                  Y == sockId[y]
              IN IF m.type = "answer"
                 THEN /\ Y \in Range(notifyOnClose'[x])
                      /\ X \in Range(notifyOnClose'[y])
                      /\ x # y => /\ Count(notifyOnClose'[x], Y) = Count(notifyOnClose[x], Y) + 1
                                  /\ Count(notifyOnClose'[y], X) = Count(notifyOnClose[y], X) + 1
                 ELSE x # y =>
                      /\ Count(notifyOnClose'[x], Y) = OneLess(Count(notifyOnClose[x], Y))
                      /\ Count(notifyOnClose'[y], X) = OneLess(Count(notifyOnClose[y], X))]_vars

\* two answers and then a bye were routed between X and Y: each still holds
\* the other once
SymmetricWitness ==
    \E x, y \in Sockets :
        /\ x # y /\ IsOpen(x) /\ IsOpen(y)
        /\ handled = 3
        /\ last = Event("message", x, "forwarded")
        /\ lastCall[{x, y}] = "bye"
        /\ notifyOnClose[x] = <<sockId[y]>>
        /\ notifyOnClose[y] = <<sockId[x]>>

\* the step handled the 'close' event of socket a
CloseStep(a) == sockState[a] = "open" /\ sockState'[a] = "closed"

\* the close notice that names the connection id
ByeText(id) == Text("object", "bye", id, NoPayload)

\* C15: the close of A removes A from the registry first, so A itself is sent
\* nothing even when it is in its own list; each registered peer in A's list
\* is sent {type:"bye", id:A} and nothing else, wherever it stands in the list;
\* a connection outside the list, or no longer registered, is sent nothing.
TerminationCascade ==
    [][\A a \in Sockets : CloseStep(a) =>
          /\ connections' = [k \in DOMAIN connections \ {sockId[a]} |-> connections[k]]
          /\ inbox'[a] = inbox[a]
          /\ \A b \in Sockets \ {a} :
                /\ Extends(b)
                /\ IF IsOpen(b) /\ sockId[b] \in Range(notifyOnClose[a])
                   THEN /\ NewEntries(b) # <<>>
                        /\ \A i \in 1..Len(NewEntries(b)) :
                              NewEntries(b)[i] = [src |-> "relay", msg |-> ByeText(sockId[a]),
                                                  err |-> FALSE]
                   ELSE NewEntries(b) = <<>>]_vars

\* A held itself ahead of B when it closed; B was still sent the notice
CascadeWitness ==
    \E a, b \in Sockets :
        /\ a # b /\ sockState[a] = "closed" /\ IsOpen(b)
        /\ last = Event("close", a, "Connection closed")
        /\ notifyOnClose[a] = <<sockId[a], sockId[a], sockId[b]>>
        /\ inbox[b][Len(inbox[b])] = [src |-> "relay", msg |-> ByeText(sockId[a]), err |-> FALSE]
        /\ inbox[a][Len(inbox[a])] =
               [src |-> "relay", msg |-> Text("object", "answer", sockId[a], "\"x\""),
                err |-> FALSE]

\* the step ran the .then callback of socket s's fetch
ResolveStep(s) == icePending[s] /\ ~icePending'[s] /\ last'.ev = "iceResolved"

Without(list, x) == SelectSeq(list, LAMBDA e : e # x)

\* C17: handling a message of A leaves the registry alone and changes no list
\* but A's and that of the connection the message is addressed to; handling
\* the close of A takes A, and only A, out of the registry, leaves A's own list
\* alone, takes A out of the list of every registered peer in A's list and
\* changes nothing else in it, and leaves every other list alone.
MutationDiscipline ==
    [][\A a \in Sockets :
          /\ MessageStep(a) =>
                /\ connections' = connections
                /\ \A c \in Sockets \ {a} : notifyOnClose'[c] # notifyOnClose[c] =>
                      \A m \in Messages : OnMessage(a, m) =>
                          Has(connections, m.id) /\ connections[m.id] = c
          /\ CloseStep(a) =>
                /\ connections' = [k \in DOMAIN connections \ {sockId[a]} |-> connections[k]]
                /\ notifyOnClose'[a] = notifyOnClose[a]
                /\ \A c \in Sockets \ {a} :
                      IF IsOpen(c) /\ sockId[c] \in Range(notifyOnClose[a])
                      THEN /\ sockId[a] \notin Range(notifyOnClose'[c])
                           /\ Without(notifyOnClose'[c], sockId[a])
                                  = Without(notifyOnClose[c], sockId[a])
                      ELSE notifyOnClose'[c] = notifyOnClose[c]]_vars

\* A answered B and was closed with a third connection C registered: B lost
\* A, C has its list as it was
MutationWitness ==
    \E a, b, c \in Sockets :
        /\ a # b /\ a # c /\ b # c
        /\ sockState[a] = "closed" /\ IsOpen(b) /\ IsOpen(c)
        /\ last = Event("close", a, "Connection closed")
        /\ DOMAIN connections = {sockId[b], sockId[c]}
        /\ notifyOnClose[a] = <<sockId[b]>>
        /\ notifyOnClose[b] = <<>>
        /\ notifyOnClose[c] = <<>>
        /\ inbox[b][Len(inbox[b])] = [src |-> "relay", msg |-> ByeText(sockId[a]), err |-> FALSE]
        /\ Len(inbox[c]) = 2

\* C18: when the send of a routed envelope fails on a registered target, the
\* one attempt is all there is: the failed send is never repeated, nothing is
\* sent to the sender or anybody else, the registry stays as it is, and both
\* lists change as for a delivered envelope of that type.
DeliveryFailure ==
    [][/\ \A c \in Sockets : Extends(c)
       /\ \A a \in Sockets : MessageStep(a) =>
             \A m \in TransMessages :
                 (/\ Has(connections, m.id)
                  /\ readyState[connections[m.id]] # "OPEN"
                  /\ OnMessage(a, m)) =>
                     LET b == connections[m.id]
                         A == sockId[a]
                         B == sockId[b]
                     IN /\ inbox' = [inbox EXCEPT ![b] =
                                        Append(@, [src |-> "relay",
                                                   msg |-> [m EXCEPT !.id = A],
                                                   err |-> TRUE])]
                        /\ connections' = connections
                        /\ alive' = alive
                        /\ notifyOnClose'[a] =
                              (CASE m.type = "answer" -> Append(notifyOnClose[a], B)
                                 [] m.type = "bye" /\ B \in Range(notifyOnClose[a]) ->
                                       Splice(notifyOnClose[a], IndexOf(notifyOnClose[a], B))
                                 [] OTHER -> notifyOnClose[a])
                        /\ notifyOnClose'[b] =
                              (CASE m.type = "answer" -> Append(notifyOnClose[b], A)
                                 [] m.type = "bye" /\ A \in Range(notifyOnClose[b]) ->
                                       Splice(notifyOnClose[b], IndexOf(notifyOnClose[b], A))
                                 [] OTHER -> notifyOnClose[b])]_vars

\* the answer of A for B, whose transport was gone, failed to go out, and
\* each of them holds the other
DeliveryFailureWitness ==
    \E a, b \in Sockets :
        /\ a # b /\ IsOpen(a) /\ IsOpen(b)
        /\ readyState[b] = "CLOSING"
        /\ last = Event("message", a, "forwarded")
        /\ Len(inbox[a]) = 2
        /\ inbox[b][Len(inbox[b])] =
               [src |-> "relay", msg |-> Text("object", "answer", sockId[a], "\"x\""),
                err |-> TRUE]
        /\ notifyOnClose[a] = <<sockId[b]>>
        /\ notifyOnClose[b] = <<sockId[a]>>

\* C19: every id in the list of a registered connection is registered, two
\* registered connections hold each other equally often, and right after the
\* close of A no registered connection holds A.
NoDanglingSubscribers ==
    /\ [](\A x \in Sockets : IsOpen(x) =>
             /\ \A i \in Range(notifyOnClose[x]) : Has(connections, i)
             /\ \A y \in Sockets : IsOpen(y) =>
                   Count(notifyOnClose[x], sockId[y]) = Count(notifyOnClose[y], sockId[x]))
    /\ [][\A a \in Sockets : CloseStep(a) =>
             \A x \in Sockets \ {a} : IsOpen(x) => sockId[a] \notin Range(notifyOnClose'[x])]_vars

\* A and B held each other twice when A was closed; B no longer holds A
NoDanglingWitness ==
    \E a, b \in Sockets :
        /\ a # b /\ sockState[a] = "closed" /\ IsOpen(b)
        /\ last = Event("close", a, "Connection closed")
        /\ notifyOnClose[a] = <<sockId[b], sockId[b]>>
        /\ notifyOnClose[b] = <<>>
        /\ DOMAIN connections = {sockId[b]}

\* C20: whatever is relayed to a connection in a step is either an envelope
\* of the connection whose message the step handled, carrying that
\* connection's id, or the notice {type:"bye", id:A} of the connection A whose
\* close the step handled; no other step relays anything.
SenderAuthenticity ==
    [][\A b \in Sockets :
          /\ Extends(b)
          /\ \A i \in 1..Len(NewEntries(b)) :
                LET e == NewEntries(b)[i]
                IN e.src = "relay" =>
                      \/ \E a \in Sockets :
                            /\ MessageStep(a) /\ IsOpen(a)
                            /\ e.msg.id = sockId[a]
                      \/ \E a \in Sockets \ {b} :
                            /\ CloseStep(a)
                            /\ e.msg = ByeText(sockId[a])]_vars

\* B was sent a bye that A wrote with B's id in it: it carries A's id
SenderAuthenticityWitness ==
    \E a, b \in Sockets :
        /\ a # b /\ IsOpen(a) /\ IsOpen(b)
        /\ last = Event("message", a, "forwarded")
        /\ Len(inbox[b]) = 3
        /\ inbox[b][3] = [src |-> "relay", msg |-> Text("object", "bye", sockId[a], "\"x\""),
                          err |-> FALSE]
        /\ sockId[a] # sockId[b]

====
